---------------------------- MODULE Spec2Model ----------------------------
(***************************************************************************)
(* The lock-guarded state store of go/master/etcd_store.go: NewEtcd, Save  *)
(* and Load of type Etcd, run by several goroutines on two handles that    *)
(* share one coordination service (sessions, one mutex, one state key).    *)
(***************************************************************************)
EXTENDS Integers, Sequences, FiniteSets, TLC

(* ------------------------------ bounds -------------------------------- *)
\* longest payload handed to Save
MaxLen == 1
\* Save/Load calls made in all
MaxCalls == 2
\* sessions the environment lets expire (lock revocations)
MaxRevokes == 1
\* connection errors the coordination service raises
MaxErrors == 1

(* ----------------------------- constants ------------------------------ *)
DefaultLockPath == "/master/lock"
DefaultStatePath == "/master/state"
\* TTL of a session opened without concurrency.WithTTL
DefaultSessionTTL == 60

Handles == {"A", "B"}
Threads == {"a1", "a2", "b1"}
HandleOf(t) == IF t = "b1" THEN "B" ELSE "A"

TTLChoices == {10}
ByteVals == {7}

\* a []byte is nil or holds bytes; a nil slice has no bytes
Nil == [isNil |-> TRUE, bytes |-> << >>]
Slice(s) == [isNil |-> FALSE, bytes |-> s]
\* a nil *Mutex, an unlocked sync.Mutex, an unset string
NoLock == 0
Free == "free"
NoPath == ""

\* e.client: nil before clientv3.New, then the connection made for the handle
NoClient == "nil"
NewClient(h) == h
\* the state key before any put, and holding a value
Absent == [present |-> FALSE, value |-> << >>]
Stored(s) == [present |-> TRUE, value |-> s]

RECURSIVE SeqsUpTo(_)
SeqsUpTo(n) ==
    IF n = 0 THEN {<< >>}
    ELSE LET S == SeqsUpTo(n - 1)
         IN  S \cup {Append(s, b) : s \in {x \in S : Len(x) = n - 1}, b \in ByteVals}

\* the []byte values a caller can pass to Save
Payloads == {Nil} \cup {Slice(s) : s \in SeqsUpTo(MaxLen)}

\* mutant: the conversion loses the last byte
GoStringLossy(b) == SubSeq(b.bytes, 1, Len(b.bytes) - 1)

\* string(state): the bytes of the slice; nil and empty both give ""
GoString(b) == b.bytes

\* kvs[0].Value as the client decodes it: the bytes that were stored; a
\* zero-length value comes back as a zero-length slice that is nil or not,
\* as the decoder of the client library decides
DecodeValue(s) == IF s = << >> THEN {Nil, Slice(<< >>)} ELSE {Slice(s)}

\* mutant: the get reads a key that holds nothing
RangeKvsWrongKey(rec) == {<< >>}

\* resp.Responses[0].GetResponseRange().Kvs of a get of the state key
RangeKvs(rec) == IF rec.present THEN {<<v>> : v \in DecodeValue(rec.value)} ELSE {<< >>}

VARIABLES
    stateRec,   \* value under statePath in the service: Absent or a string
    sessions,   \* sequence of the sessions ever opened: [ttl, path, h, by]
    live,       \* ids of the sessions whose lease is alive
    holder,     \* ids of the sessions that hold the mutex at lockPath
    revokes,    \* sessions expired so far
    errors,     \* connection errors raised so far
    ctor,       \* NewEtcd's position, per handle
    ctorLock,   \* NewEtcd's local variable lock (a session id), per handle
    lock,       \* e.lock: session id of the handle's mutex
    ttlSec,     \* e.ttlSec
    lockPath,   \* e.lockPath
    statePath,  \* e.statePath
    client,     \* e.client: the connection the handle was built with
    mu,         \* e.mu: Free or the goroutine that locked it
    pc,         \* position of each goroutine
    arg,        \* Save's parameter state
    depth,      \* frames of Save/Load on the goroutine's stack
    resp,       \* Load's transaction response: the kvs of the get
    val,        \* returned []byte
    err,        \* local err / returned error
    ncalls,     \* calls made so far
    failed,     \* history: a service call of the current call raised an error
    wrote,      \* history: puts the current call committed
    lastOp,     \* history: the operation of the goroutine's current/last call
    lastPut,    \* history: handle and payload of the latest committed put
    seen        \* history: lastPut at the commit of the get of the running Load

svc == <<stateRec, sessions, live, holder, revokes, errors>>
hnd == <<ctor, ctorLock, lock, ttlSec, lockPath, statePath, client, mu>>
thr == <<pc, arg, depth, resp, val, err, ncalls, failed, wrote, lastOp, lastPut, seen>>
vars == <<stateRec, sessions, live, holder, revokes, errors,
          ctor, ctorLock, lock, ttlSec, lockPath, statePath, client, mu,
          pc, arg, depth, resp, val, err, ncalls, failed, wrote, lastOp, lastPut, seen>>

(* ----------------------- coordination service ------------------------- *)
\* MutexHandle.IsOwner() as a transaction condition, resolved at commit
IsOwner(s) == s \in holder

\* a blocking lock request is granted when nobody holds the mutex
Grantable(s) == s \in live /\ holder = {}

\* OpenSession(ttl) then NewMutex(session, path): the new session's id
NewSessionId == Len(sessions) + 1
OpenSession(ttl, path, h, by) ==
    /\ sessions' = Append(sessions, [ttl |-> ttl, path |-> path, h |-> h, by |-> by])
    /\ live' = live \cup {NewSessionId}

\* the lock is revoked: the lease of the session that holds it expires or
\* is deleted, and everything bound to the session goes
ExpireSession(s) ==
    /\ s \in holder
    /\ revokes < MaxRevokes
    /\ live' = live \ {s}
    /\ holder' = holder \ {s}
    /\ revokes' = revokes + 1
    /\ UNCHANGED <<stateRec, sessions, errors>>
    /\ UNCHANGED hnd
    /\ UNCHANGED thr

CanFail == errors < MaxErrors

\* history value: no put committed yet, no get in progress
NoPut == [h |-> "none", payload |-> Nil]

Init ==
    /\ stateRec = Absent
    /\ sessions = << >>
    /\ live = {}
    /\ holder = {}
    /\ revokes = 0
    /\ errors = 0
    /\ ctor = [h \in Handles |-> "start"]
    /\ ctorLock = [h \in Handles |-> NoLock]
    /\ lock = [h \in Handles |-> NoLock]
    /\ ttlSec = [h \in Handles |-> 0]
    /\ lockPath = [h \in Handles |-> NoPath]
    /\ statePath = [h \in Handles |-> NoPath]
    /\ client = [h \in Handles |-> NoClient]
    /\ mu = [h \in Handles |-> Free]
    /\ pc = [t \in Threads |-> "idle"]
    /\ arg = [t \in Threads |-> Nil]
    /\ depth = [t \in Threads |-> 0]
    /\ resp = [t \in Threads |-> << >>]
    /\ val = [t \in Threads |-> Nil]
    /\ err = [t \in Threads |-> FALSE]
    /\ ncalls = 0
    /\ failed = [t \in Threads |-> FALSE]
    /\ wrote = [t \in Threads |-> 0]
    /\ lastOp = [t \in Threads |-> "none"]
    /\ lastPut = NoPut
    /\ seen = [t \in Threads |-> NoPut]

(* ------------------------------ NewEtcd ------------------------------- *)
\* clientv3.New fails: return nil, err
NewEtcdClientErr(h) ==
    /\ ctor[h] = "start"
    /\ CanFail
    /\ errors' = errors + 1
    /\ ctor' = [ctor EXCEPT ![h] = "failed"]
    /\ UNCHANGED <<stateRec, sessions, live, holder, revokes>>
    /\ UNCHANGED <<ctorLock, lock, ttlSec, lockPath, statePath, client, mu>>
    /\ UNCHANGED thr

\* clientv3.New, concurrency.NewSession(cli, WithTTL(ttlSec)) and
\* NewMutex(sess, lockPath) succeed; the parameters are the caller's
NewEtcdSession(h, ttl) ==
    /\ ctor[h] = "start"
    /\ ttlSec' = [ttlSec EXCEPT ![h] = ttl]
    /\ lockPath' = [lockPath EXCEPT ![h] = DefaultLockPath]
    /\ statePath' = [statePath EXCEPT ![h] = DefaultStatePath]
    /\ client' = [client EXCEPT ![h] = NewClient(h)]
    /\ OpenSession(ttl, DefaultLockPath, h, "NewEtcd")
    /\ ctorLock' = [ctorLock EXCEPT ![h] = NewSessionId]
    /\ ctor' = [ctor EXCEPT ![h] = "lock"]
    /\ UNCHANGED <<stateRec, holder, revokes, errors>>
    /\ UNCHANGED <<lock, mu>>
    /\ UNCHANGED thr

\* clientv3.New succeeds and concurrency.NewSession fails: return nil, err
NewEtcdSessionErr(h) ==
    /\ ctor[h] = "start"
    /\ CanFail
    /\ errors' = errors + 1
    /\ ctor' = [ctor EXCEPT ![h] = "failed"]
    /\ UNCHANGED <<stateRec, sessions, live, holder, revokes>>
    /\ UNCHANGED <<ctorLock, lock, ttlSec, lockPath, statePath, client, mu>>
    /\ UNCHANGED thr

\* mutant: the handle is built without waiting for the lock to be granted
NewEtcdLockNoWait(h) ==
    /\ ctor[h] = "lock"
    /\ ctorLock[h] \in live
    /\ holder' = holder \cup {ctorLock[h]}
    /\ lock' = [lock EXCEPT ![h] = ctorLock[h]]
    /\ ctor' = [ctor EXCEPT ![h] = "done"]
    /\ UNCHANGED <<stateRec, sessions, live, revokes, errors>>
    /\ UNCHANGED <<ctorLock, ttlSec, lockPath, statePath, client, mu>>
    /\ UNCHANGED thr

\* lock.Lock returns nil: the handle is built around the granted mutex
NewEtcdLock(h) ==
    /\ ctor[h] = "lock"
    /\ Grantable(ctorLock[h])
    /\ holder' = holder \cup {ctorLock[h]}
    /\ lock' = [lock EXCEPT ![h] = ctorLock[h]]
    /\ ctor' = [ctor EXCEPT ![h] = "done"]
    /\ UNCHANGED <<stateRec, sessions, live, revokes, errors>>
    /\ UNCHANGED <<ctorLock, ttlSec, lockPath, statePath, client, mu>>
    /\ UNCHANGED thr

\* mutant: the error of lock.Lock is dropped and the handle is returned
NewEtcdLockErrIgnored(h) ==
    /\ ctor[h] = "lock"
    /\ CanFail
    /\ errors' = errors + 1
    /\ lock' = [lock EXCEPT ![h] = ctorLock[h]]
    /\ ctor' = [ctor EXCEPT ![h] = "done"]
    /\ UNCHANGED <<stateRec, sessions, live, holder, revokes>>
    /\ UNCHANGED <<ctorLock, ttlSec, lockPath, statePath, client, mu>>
    /\ UNCHANGED thr

\* lock.Lock returns an error
NewEtcdLockErr(h) ==
    /\ ctor[h] = "lock"
    /\ CanFail
    /\ errors' = errors + 1
    /\ ctor' = [ctor EXCEPT ![h] = "failed"]
    /\ UNCHANGED <<stateRec, sessions, live, holder, revokes>>
    /\ UNCHANGED <<ctorLock, lock, ttlSec, lockPath, statePath, client, mu>>
    /\ UNCHANGED thr

(* -------------------------------- Save -------------------------------- *)
\* a goroutine calls e.Save(state) on a handle NewEtcd returned
SaveCall(t, p) ==
    /\ pc[t] = "idle"
    /\ ctor[HandleOf(t)] = "done"
    /\ ncalls < MaxCalls
    /\ pc' = [pc EXCEPT ![t] = "s_lock"]
    /\ arg' = [arg EXCEPT ![t] = p]
    /\ depth' = [depth EXCEPT ![t] = 1]
    /\ val' = [val EXCEPT ![t] = Nil]
    /\ err' = [err EXCEPT ![t] = FALSE]
    /\ ncalls' = ncalls + 1
    /\ failed' = [failed EXCEPT ![t] = FALSE]
    /\ wrote' = [wrote EXCEPT ![t] = 0]
    /\ lastOp' = [lastOp EXCEPT ![t] = "Save"]
    /\ UNCHANGED <<resp, lastPut, seen>>
    /\ UNCHANGED svc
    /\ UNCHANGED hnd

\* e.mu.Lock(); defer e.mu.Unlock()
SaveGuard(t) ==
    /\ pc[t] = "s_lock"
    /\ mu[HandleOf(t)] = Free
    /\ mu' = [mu EXCEPT ![HandleOf(t)] = t]
    /\ pc' = [pc EXCEPT ![t] = "s_txn"]
    /\ UNCHANGED <<ctor, ctorLock, lock, ttlSec, lockPath, statePath, client>>
    /\ UNCHANGED <<arg, depth, resp, val, err, ncalls, failed, wrote, lastOp, lastPut, seen>>
    /\ UNCHANGED svc

\* mutant: the transaction carries no ownership condition
TxnConditionNone(h) == TRUE

\* the condition of Txn(ctx).If(e.lock.IsOwner()), resolved at commit
TxnCondition(h) == IsOwner(lock[h])

\* mutant: a failed ownership condition is returned to the caller as an error
SaveLostReturnsErr(t) ==
    /\ pc' = [pc EXCEPT ![t] = "s_ret"]
    /\ err' = [err EXCEPT ![t] = TRUE]

\* !resp.Succeeded in Save: go on to open a new session, no error yet
SaveLost(t) ==
    /\ pc' = [pc EXCEPT ![t] = "s_newsess"]
    /\ UNCHANGED err

\* mutant: the put is in both branches of the transaction, so it commits
\* whether or not the condition holds
SaveTxnPutAlways(t) ==
    /\ pc[t] = "s_txn"
    /\ stateRec' = Stored(GoString(arg[t]))
    /\ wrote' = [wrote EXCEPT ![t] = @ + 1]
    /\ lastPut' = [h |-> HandleOf(t), payload |-> arg[t]]
    /\ IF TxnCondition(HandleOf(t))
       THEN /\ pc' = [pc EXCEPT ![t] = "s_ret"]
            /\ UNCHANGED err
       ELSE SaveLost(t)
    /\ UNCHANGED <<sessions, live, holder, revokes, errors>>
    /\ UNCHANGED <<arg, depth, resp, val, ncalls, failed, lastOp, seen>>
    /\ UNCHANGED hnd

\* Txn.If(IsOwner).Then(put).Commit() returns without error
SaveTxn(t) ==
    /\ pc[t] = "s_txn"
    /\ IF TxnCondition(HandleOf(t))
       THEN /\ stateRec' = Stored(GoString(arg[t]))
            /\ wrote' = [wrote EXCEPT ![t] = @ + 1]
            /\ lastPut' = [h |-> HandleOf(t), payload |-> arg[t]]
            /\ pc' = [pc EXCEPT ![t] = "s_ret"]
            /\ UNCHANGED err
       ELSE /\ SaveLost(t)
            /\ UNCHANGED <<stateRec, wrote, lastPut>>
    /\ UNCHANGED <<sessions, live, holder, revokes, errors>>
    /\ UNCHANGED <<arg, depth, resp, val, ncalls, failed, lastOp, seen>>
    /\ UNCHANGED hnd

\* mutant: after an error Save goes on to reacquire and retry
SaveOnErrorRetry(t) == "s_newsess"

\* where Save goes when a service call returns an error: return err
SaveOnError(t) == "s_ret"

\* Commit returns an error
SaveTxnErr(t) ==
    /\ pc[t] = "s_txn"
    /\ CanFail
    /\ errors' = errors + 1
    /\ err' = [err EXCEPT ![t] = TRUE]
    /\ failed' = [failed EXCEPT ![t] = TRUE]
    /\ pc' = [pc EXCEPT ![t] = SaveOnError(t)]
    /\ UNCHANGED <<stateRec, sessions, live, holder, revokes>>
    /\ UNCHANGED <<arg, depth, resp, val, ncalls, wrote, lastOp, lastPut, seen>>
    /\ UNCHANGED hnd

\* the TTL Save opens its new session with
SaveSessionTTL(h) == ttlSec[h]

\* mutant: the new mutex is bound to the session the handle already has
SaveNewSessionReuse(t) ==
    /\ pc[t] = "s_newsess"
    /\ pc' = [pc EXCEPT ![t] = "s_lockreq"]
    /\ UNCHANGED svc
    /\ UNCHANGED hnd
    /\ UNCHANGED <<arg, depth, resp, val, err, ncalls, failed, wrote, lastOp, lastPut, seen>>

\* NewSession(e.client, WithTTL(e.ttlSec)); e.lock = NewMutex(sess, e.lockPath)
SaveNewSession(t) ==
    /\ pc[t] = "s_newsess"
    /\ OpenSession(SaveSessionTTL(HandleOf(t)), lockPath[HandleOf(t)], HandleOf(t), "Save")
    /\ lock' = [lock EXCEPT ![HandleOf(t)] = NewSessionId]
    /\ pc' = [pc EXCEPT ![t] = "s_lockreq"]
    /\ UNCHANGED <<stateRec, holder, revokes, errors>>
    /\ UNCHANGED <<ctor, ctorLock, ttlSec, lockPath, statePath, client, mu>>
    /\ UNCHANGED <<arg, depth, resp, val, err, ncalls, failed, wrote, lastOp, lastPut, seen>>

SaveNewSessionErr(t) ==
    /\ pc[t] = "s_newsess"
    /\ CanFail
    /\ errors' = errors + 1
    /\ err' = [err EXCEPT ![t] = TRUE]
    /\ failed' = [failed EXCEPT ![t] = TRUE]
    /\ pc' = [pc EXCEPT ![t] = SaveOnError(t)]
    /\ UNCHANGED <<stateRec, sessions, live, holder, revokes>>
    /\ UNCHANGED <<arg, depth, resp, val, ncalls, wrote, lastOp, lastPut, seen>>
    /\ UNCHANGED hnd

\* e.lock.Lock returns nil
SaveLockGranted(t) ==
    /\ pc[t] = "s_lockreq"
    /\ Grantable(lock[HandleOf(t)])
    /\ holder' = holder \cup {lock[HandleOf(t)]}
    /\ pc' = [pc EXCEPT ![t] = "s_recurse"]
    /\ UNCHANGED <<stateRec, sessions, live, revokes, errors>>
    /\ UNCHANGED <<arg, depth, resp, val, err, ncalls, failed, wrote, lastOp, lastPut, seen>>
    /\ UNCHANGED hnd

\* e.lock.Lock returns an error
SaveLockErr(t) ==
    /\ pc[t] = "s_lockreq"
    /\ CanFail
    /\ errors' = errors + 1
    /\ err' = [err EXCEPT ![t] = TRUE]
    /\ failed' = [failed EXCEPT ![t] = TRUE]
    /\ pc' = [pc EXCEPT ![t] = SaveOnError(t)]
    /\ UNCHANGED <<stateRec, sessions, live, holder, revokes>>
    /\ UNCHANGED <<arg, depth, resp, val, ncalls, wrote, lastOp, lastPut, seen>>
    /\ UNCHANGED hnd

\* return e.Save(state): a new frame, which starts at e.mu.Lock()
SaveRecurse(t) ==
    /\ pc[t] = "s_recurse"
    /\ depth' = [depth EXCEPT ![t] = @ + 1]
    /\ pc' = [pc EXCEPT ![t] = "s_lock"]
    /\ UNCHANGED <<arg, resp, val, err, ncalls, failed, wrote, lastOp, lastPut, seen>>
    /\ UNCHANGED svc
    /\ UNCHANGED hnd

\* a frame of Save returns: its deferred e.mu.Unlock() runs (unlocking an
\* unlocked sync.Mutex is a fatal error), then the caller's frame returns
\* with the same result; the parameter goes with the outermost frame
SaveReturn(t) ==
    /\ pc[t] = "s_ret"
    /\ IF mu[HandleOf(t)] = Free
       THEN /\ pc' = [pc EXCEPT ![t] = "fatal"]
            /\ UNCHANGED <<mu, depth>>
       ELSE /\ mu' = [mu EXCEPT ![HandleOf(t)] = Free]
            /\ depth' = [depth EXCEPT ![t] = @ - 1]
            /\ pc' = [pc EXCEPT ![t] = IF depth[t] = 1 THEN "idle" ELSE "s_ret"]
    /\ arg' = [arg EXCEPT ![t] = IF pc'[t] = "idle" THEN Nil ELSE @]
    /\ UNCHANGED <<ctor, ctorLock, lock, ttlSec, lockPath, statePath, client>>
    /\ UNCHANGED <<resp, val, err, ncalls, failed, wrote, lastOp, lastPut, seen>>
    /\ UNCHANGED svc

(* -------------------------------- Load -------------------------------- *)
LoadCall(t) ==
    /\ pc[t] = "idle"
    /\ ctor[HandleOf(t)] = "done"
    /\ ncalls < MaxCalls
    /\ pc' = [pc EXCEPT ![t] = "l_lock"]
    /\ arg' = [arg EXCEPT ![t] = Nil]
    /\ depth' = [depth EXCEPT ![t] = 1]
    /\ val' = [val EXCEPT ![t] = Nil]
    /\ err' = [err EXCEPT ![t] = FALSE]
    /\ resp' = [resp EXCEPT ![t] = << >>]
    /\ ncalls' = ncalls + 1
    /\ failed' = [failed EXCEPT ![t] = FALSE]
    /\ wrote' = [wrote EXCEPT ![t] = 0]
    /\ lastOp' = [lastOp EXCEPT ![t] = "Load"]
    /\ UNCHANGED <<lastPut, seen>>
    /\ UNCHANGED svc
    /\ UNCHANGED hnd

\* e.mu.Lock()
LoadGuard(t) ==
    /\ pc[t] = "l_lock"
    /\ mu[HandleOf(t)] = Free
    /\ mu' = [mu EXCEPT ![HandleOf(t)] = t]
    /\ pc' = [pc EXCEPT ![t] = "l_txn"]
    /\ UNCHANGED <<ctor, ctorLock, lock, ttlSec, lockPath, statePath, client>>
    /\ UNCHANGED <<arg, depth, resp, val, err, ncalls, failed, wrote, lastOp, lastPut, seen>>
    /\ UNCHANGED svc

\* Txn.If(IsOwner).Then(get).Commit() returns without error
LoadTxn(t) ==
    /\ pc[t] = "l_txn"
    /\ IF TxnCondition(HandleOf(t))
       THEN /\ \E kvs \in RangeKvs(stateRec) : resp' = [resp EXCEPT ![t] = kvs]
            /\ seen' = [seen EXCEPT ![t] = lastPut]
            /\ pc' = [pc EXCEPT ![t] = "l_result"]
       ELSE /\ pc' = [pc EXCEPT ![t] = "l_newsess"]
            /\ UNCHANGED <<resp, seen>>
    /\ UNCHANGED <<arg, depth, val, err, ncalls, failed, wrote, lastOp, lastPut>>
    /\ UNCHANGED svc
    /\ UNCHANGED hnd

\* Commit returns an error: return nil, err (e.mu stays locked)
LoadTxnErr(t) ==
    /\ pc[t] = "l_txn"
    /\ CanFail
    /\ errors' = errors + 1
    /\ err' = [err EXCEPT ![t] = TRUE]
    /\ failed' = [failed EXCEPT ![t] = TRUE]
    /\ pc' = [pc EXCEPT ![t] = "idle"]
    /\ depth' = [depth EXCEPT ![t] = 0]
    /\ UNCHANGED <<stateRec, sessions, live, holder, revokes>>
    /\ UNCHANGED <<arg, resp, val, ncalls, wrote, lastOp, lastPut, seen>>
    /\ UNCHANGED hnd

\* the TTL Load opens its new session with: NewSession(e.client) gives no
\* WithTTL option, so the session gets the library's default
LoadSessionTTL(h) == DefaultSessionTTL

\* mutant: e.mu is released before the blocking lock request
LoadNewSessionUnguarded(t) ==
    /\ pc[t] = "l_newsess"
    /\ OpenSession(DefaultSessionTTL, lockPath[HandleOf(t)], HandleOf(t), "Load")
    /\ lock' = [lock EXCEPT ![HandleOf(t)] = NewSessionId]
    /\ mu' = [mu EXCEPT ![HandleOf(t)] = Free]
    /\ pc' = [pc EXCEPT ![t] = "l_lockreq"]
    /\ UNCHANGED <<stateRec, holder, revokes, errors>>
    /\ UNCHANGED <<ctor, ctorLock, ttlSec, lockPath, statePath, client>>
    /\ UNCHANGED <<arg, depth, resp, val, err, ncalls, failed, wrote, lastOp, lastPut, seen>>

\* NewSession(e.client); e.lock = NewMutex(sess, e.lockPath)
LoadNewSession(t) ==
    /\ pc[t] = "l_newsess"
    /\ OpenSession(LoadSessionTTL(HandleOf(t)), lockPath[HandleOf(t)], HandleOf(t), "Load")
    /\ lock' = [lock EXCEPT ![HandleOf(t)] = NewSessionId]
    /\ pc' = [pc EXCEPT ![t] = "l_lockreq"]
    /\ UNCHANGED <<stateRec, holder, revokes, errors>>
    /\ UNCHANGED <<ctor, ctorLock, ttlSec, lockPath, statePath, client, mu>>
    /\ UNCHANGED <<arg, depth, resp, val, err, ncalls, failed, wrote, lastOp, lastPut, seen>>

\* NewSession returns an error: return nil, err (e.mu stays locked)
LoadNewSessionErr(t) ==
    /\ pc[t] = "l_newsess"
    /\ CanFail
    /\ errors' = errors + 1
    /\ err' = [err EXCEPT ![t] = TRUE]
    /\ failed' = [failed EXCEPT ![t] = TRUE]
    /\ pc' = [pc EXCEPT ![t] = "idle"]
    /\ depth' = [depth EXCEPT ![t] = 0]
    /\ UNCHANGED <<stateRec, sessions, live, holder, revokes>>
    /\ UNCHANGED <<arg, resp, val, ncalls, wrote, lastOp, lastPut, seen>>
    /\ UNCHANGED hnd

\* err = e.lock.Lock(ctx) with err == nil
LoadLockGranted(t) ==
    /\ pc[t] = "l_lockreq"
    /\ Grantable(lock[HandleOf(t)])
    /\ holder' = holder \cup {lock[HandleOf(t)]}
    /\ pc' = [pc EXCEPT ![t] = "l_unlock"]
    /\ UNCHANGED <<stateRec, sessions, live, revokes, errors>>
    /\ UNCHANGED <<arg, depth, resp, val, err, ncalls, failed, wrote, lastOp, lastPut, seen>>
    /\ UNCHANGED hnd

\* err = e.lock.Lock(ctx) with err != nil
LoadLockErr(t) ==
    /\ pc[t] = "l_lockreq"
    /\ CanFail
    /\ errors' = errors + 1
    /\ err' = [err EXCEPT ![t] = TRUE]
    /\ failed' = [failed EXCEPT ![t] = TRUE]
    /\ pc' = [pc EXCEPT ![t] = "l_unlock"]
    /\ UNCHANGED <<stateRec, sessions, live, holder, revokes>>
    /\ UNCHANGED <<arg, depth, resp, val, ncalls, wrote, lastOp, lastPut, seen>>
    /\ UNCHANGED hnd

\* mutant: the guard is released only on the error return and is kept over
\* the recursive call
LoadUnlockHeld(t) ==
    /\ pc[t] = "l_unlock"
    /\ IF err[t]
       THEN /\ mu' = [mu EXCEPT ![HandleOf(t)] = Free]
            /\ pc' = [pc EXCEPT ![t] = "idle"]
            /\ depth' = [depth EXCEPT ![t] = 0]
       ELSE /\ mu' = mu
            /\ pc' = [pc EXCEPT ![t] = "l_lock"]
            /\ depth' = [depth EXCEPT ![t] = @ + 1]
    /\ UNCHANGED <<ctor, ctorLock, lock, ttlSec, lockPath, statePath, client>>
    /\ UNCHANGED <<arg, resp, val, err, ncalls, failed, wrote, lastOp, lastPut, seen>>
    /\ UNCHANGED svc

\* e.mu.Unlock(); then return nil, err, or return e.Load() in a new frame
LoadUnlock(t) ==
    /\ pc[t] = "l_unlock"
    /\ mu' = [mu EXCEPT ![HandleOf(t)] = Free]
    /\ IF err[t]
       THEN /\ pc' = [pc EXCEPT ![t] = "idle"]
            /\ depth' = [depth EXCEPT ![t] = 0]
       ELSE /\ pc' = [pc EXCEPT ![t] = "l_lock"]
            /\ depth' = [depth EXCEPT ![t] = @ + 1]
    /\ UNCHANGED <<ctor, ctorLock, lock, ttlSec, lockPath, statePath, client>>
    /\ UNCHANGED <<arg, resp, val, err, ncalls, failed, wrote, lastOp, lastPut, seen>>
    /\ UNCHANGED svc

\* mutant: a Load that finds no state creates an empty state record
LoadAbsentCreates(t) ==
    /\ pc[t] = "l_result"
    /\ Len(resp[t]) = 0
    /\ stateRec' = Stored(<< >>)
    /\ mu' = [mu EXCEPT ![HandleOf(t)] = Free]
    /\ val' = [val EXCEPT ![t] = Nil]
    /\ pc' = [pc EXCEPT ![t] = "idle"]
    /\ depth' = [depth EXCEPT ![t] = 0]
    /\ UNCHANGED <<ctor, ctorLock, lock, ttlSec, lockPath, statePath, client>>
    /\ resp' = [resp EXCEPT ![t] = << >>]
    /\ seen' = [seen EXCEPT ![t] = NoPut]
    /\ UNCHANGED <<arg, err, ncalls, failed, wrote, lastOp, lastPut>>
    /\ UNCHANGED <<sessions, live, holder, revokes, errors>>

\* len(kvs) == 0: e.mu.Unlock(); return nil, nil
LoadAbsent(t) ==
    /\ pc[t] = "l_result"
    /\ Len(resp[t]) = 0
    /\ mu' = [mu EXCEPT ![HandleOf(t)] = Free]
    /\ val' = [val EXCEPT ![t] = Nil]
    /\ pc' = [pc EXCEPT ![t] = "idle"]
    /\ depth' = [depth EXCEPT ![t] = 0]
    /\ UNCHANGED <<ctor, ctorLock, lock, ttlSec, lockPath, statePath, client>>
    /\ resp' = [resp EXCEPT ![t] = << >>]
    /\ seen' = [seen EXCEPT ![t] = NoPut]
    /\ UNCHANGED <<arg, err, ncalls, failed, wrote, lastOp, lastPut>>
    /\ UNCHANGED svc

\* state := kvs[0].Value; e.mu.Unlock(); return state, nil
LoadValue(t) ==
    /\ pc[t] = "l_result"
    /\ Len(resp[t]) > 0
    /\ mu' = [mu EXCEPT ![HandleOf(t)] = Free]
    /\ val' = [val EXCEPT ![t] = resp[t][1]]
    /\ pc' = [pc EXCEPT ![t] = "idle"]
    /\ depth' = [depth EXCEPT ![t] = 0]
    /\ UNCHANGED <<ctor, ctorLock, lock, ttlSec, lockPath, statePath, client>>
    /\ resp' = [resp EXCEPT ![t] = << >>]
    /\ seen' = [seen EXCEPT ![t] = NoPut]
    /\ UNCHANGED <<arg, err, ncalls, failed, wrote, lastOp, lastPut>>
    /\ UNCHANGED svc

(* --------------------------- specification ---------------------------- *)
\* the steps a goroutine takes inside a call of Save or Load
ThreadStep(t) ==
    \/ SaveGuard(t) \/ SaveTxn(t) \/ SaveTxnErr(t)
    \/ SaveNewSession(t) \/ SaveNewSessionErr(t)
    \/ SaveLockGranted(t) \/ SaveLockErr(t)
    \/ SaveRecurse(t) \/ SaveReturn(t)
    \/ LoadGuard(t) \/ LoadTxn(t) \/ LoadTxnErr(t)
    \/ LoadNewSession(t) \/ LoadNewSessionErr(t)
    \/ LoadLockGranted(t) \/ LoadLockErr(t)
    \/ LoadUnlock(t) \/ LoadAbsent(t) \/ LoadValue(t)

Next ==
    \/ \E h \in Handles : NewEtcdClientErr(h)
    \/ \E h \in Handles, ttl \in TTLChoices : NewEtcdSession(h, ttl)
    \/ \E h \in Handles : NewEtcdSessionErr(h)
    \/ \E h \in Handles : NewEtcdLock(h)
    \/ \E h \in Handles : NewEtcdLockErr(h)
    \/ \E t \in Threads, p \in Payloads : SaveCall(t, p)
    \/ \E t \in Threads : LoadCall(t)
    \/ \E t \in Threads : ThreadStep(t)
    \/ \E s \in holder : ExpireSession(s)

Spec == Init /\ [][Next]_vars

\* a goroutine inside Save or Load keeps running while it has a step to take
FairSpec == Spec /\ \A t \in Threads : WF_vars(ThreadStep(t))

(* ------------------------------ claims -------------------------------- *)
\* a call of Save or of Load has returned to its caller
Returned(t, op) == pc[t] = "idle" /\ lastOp[t] = op

\* C1: a put issued by Save is committed, and the StateRecord changes, only
\* in a step in which the handle's current lock is owner of the lock path at
\* that instant; a handle whose lock is revoked or taken over changes nothing
\* until it holds the lock again.
C1_OwnerOnlyWrites ==
    [][ /\ \A t \in Threads :
              wrote'[t] > wrote[t] =>
                  /\ IsOwner(lock[HandleOf(t)])
                  /\ pc[t] = "s_txn"
                  /\ stateRec' = Stored(GoString(arg[t]))
        /\ stateRec' # stateRec => \E t \in Threads : wrote'[t] > wrote[t]
      ]_vars

\* C1 witness: a Save whose handle lost the lock found its condition false
\* and left another handle's or call's record in place.
C1_Witness ==
    \E t \in Threads :
        /\ pc[t] = "s_newsess"
        /\ ~IsOwner(lock[HandleOf(t)])
        /\ stateRec.present
        /\ stateRec # Stored(GoString(arg[t]))

\* C2: once Save has reacquired the lock after ownership loss (the service
\* granted the request and raised no error), the call eventually returns.
C2_SaveRecovers ==
    \A t \in Threads : (pc[t] = "s_recurse") ~> (pc[t] = "idle")

\* C3: a Load that finds its handle's lock revoked, or that has reacquired
\* it, eventually returns, unless it waits for the lock to be granted.
C3_LoadRecovers ==
    \A t \in Threads :
        (pc[t] = "l_lock" /\ (depth[t] > 1 \/ ~IsOwner(lock[HandleOf(t)])))
            ~> (pc[t] \in {"idle", "l_lockreq"})

\* C4: round trip: a Load whose get committed when the latest committed put
\* was a Save(P) of the same handle returns exactly the bytes of P, no error.
C4_RoundTrip ==
    [][\A t \in Threads :
          (pc[t] = "l_result" /\ pc'[t] = "idle" /\ seen[t].h = HandleOf(t)) =>
              /\ Len(resp[t]) = 1
              /\ ~err'[t]
              /\ val'[t].bytes = seen[t].payload.bytes
      ]_vars

\* C4 witness: a Load returned the non-empty payload its own handle saved last.
C4_Witness ==
    \E t \in Threads :
        /\ Returned(t, "Load") /\ ~err[t]
        /\ lastPut.h = HandleOf(t)
        /\ Len(val[t].bytes) > 0
        /\ val[t].bytes = lastPut.payload.bytes

\* C5: Load returns the Absent result (nil, no error) when the state key
\* was never written, and a result different from it when the key holds a
\* record, a zero-length one included.
C5_AbsentDistinct ==
    [][\A t \in Threads :
          (pc[t] = "l_result" /\ pc'[t] = "idle") =>
              /\ ~err'[t]
              /\ Len(resp[t]) = 0 => val'[t] = Nil
              /\ Len(resp[t]) > 0 => val'[t] # Nil
      ]_vars

C7_ErrorsNotRetried ==
    /\ [][\A t \in Threads :
            /\ (failed'[t] /\ ~failed[t]) =>
                   /\ err'[t]
                   /\ pc'[t] \in {"idle", "s_ret", "l_unlock"}
                   /\ UNCHANGED <<stateRec, sessions, live, holder>>
            /\ (failed[t] /\ pc[t] # "idle" /\ pc'[t] # pc[t]) =>
                   /\ pc'[t] \in {"idle", "s_ret"}
                   /\ err'[t]
                   /\ UNCHANGED <<stateRec, sessions, live, holder>>
         ]_vars
    /\ [](\A t \in Threads : failed[t] => wrote[t] = 0)

\* C7 witness: a call has returned the connection error of one of its
\* service calls, the only one the service raised.
C7_Witness ==
    \E t \in Threads :
        /\ pc[t] = "idle" /\ err[t] /\ failed[t]
        /\ errors = MaxErrors

\* C8: Save or Load returns an error only if a service call of that call
\* failed; a false ownership condition alone never makes the call fail.
C8_ErrorsOnlyFromService ==
    \A t \in Threads : err[t] => failed[t]

\* C8 witness: a call found its ownership condition false, and returned an
\* error only because the reacquisition then failed.
C8_Witness ==
    \E t \in Threads :
        /\ pc[t] = "idle" /\ err[t] /\ failed[t]
        /\ sessions[lock[HandleOf(t)]].by = "Save"
        /\ lastOp[t] = "Save"

\* C9: NewEtcd returns a handle only in a step that grants its lock request,
\* which needs the mutex free; before that, and after a failed client,
\* session or lock request, there is no handle.
C9_InitialAcquisition ==
    /\ [][\A h \in Handles :
            (ctor'[h] = "done" /\ ctor[h] # "done") =>
                /\ holder = {}
                /\ lock'[h] \in holder'
                /\ lock'[h] \in live']_vars
    /\ [](\A h \in Handles : ctor[h] # "done" => lock[h] = NoLock)

\* C9 witness: both handles were returned, the second after the first one's
\* lease expired.
C9_Witness ==
    /\ ctor["A"] = "done" /\ ctor["B"] = "done"
    /\ IsOwner(lock["B"]) /\ lock["A"] \notin live

\* C10: every session, the initial one and each one opened by Save or Load
\* on ownership loss, has the TTL and the lock path configured for its handle.
C10_ReacquireSameConfig ==
    \A i \in 1..Len(sessions) :
        /\ sessions[i].ttl = ttlSec[sessions[i].h]
        /\ sessions[i].path = lockPath[sessions[i].h]

\* the positions at which a call reads e.lock (to build the condition or to
\* request the lock) or is about to replace it
LockRefPcs == {"s_txn", "s_newsess", "s_lockreq", "l_txn", "l_newsess", "l_lockreq"}

\* C11: a call reads or replaces the handle's lock reference only while it
\* holds the handle's guard, so no two calls on one handle are at such a
\* position together, and e.lock changes only in a step of the guard's holder.
C11_LockRefGuarded ==
    /\ [](\A t \in Threads : pc[t] \in LockRefPcs => mu[HandleOf(t)] = t)
    /\ [](\A t1, t2 \in Threads :
             (t1 # t2 /\ HandleOf(t1) = HandleOf(t2))
                 => ~(pc[t1] \in LockRefPcs /\ pc[t2] \in LockRefPcs))
    /\ [][\A h \in Handles :
            (ctor[h] = "done" /\ lock'[h] # lock[h]) =>
                \E t \in Threads :
                    /\ HandleOf(t) = h /\ mu[h] = t
                    /\ pc[t] \in {"s_newsess", "l_newsess"}]_vars

\* C11 witness: one call is replacing the lock reference under the guard
\* while another call on the same handle waits for the guard.
C11_Witness ==
    \E t1, t2 \in Threads :
        /\ t1 # t2 /\ HandleOf(t1) = HandleOf(t2)
        /\ pc[t1] \in {"s_lockreq", "l_lockreq"} /\ mu[HandleOf(t1)] = t1
        /\ pc[t2] \in {"s_lock", "l_lock"}

\* C12: when Save's ownership condition has failed, the guard is released
\* before Save reacquires and retries, so the retried Save never waits at
\* e.mu.Lock() for a guard that its own call still holds.
C12_SaveRetryUnguarded ==
    \A t \in Threads :
        /\ pc[t] \in {"s_newsess", "s_lockreq", "s_recurse"} => mu[HandleOf(t)] # t
        /\ (pc[t] = "s_lock" /\ depth[t] > 1) => mu[HandleOf(t)] # t

\* C13: on Load's ownership-loss path the guard is released before the
\* recursive retry begins: the step that starts the retry leaves the guard
\* free, and a retrying Load waiting at e.mu.Lock() never holds the guard
\* itself, so another call on the handle can take it first.
C13_LoadRetryUnguarded ==
    /\ [][\A t \in Threads :
            (pc[t] = "l_unlock" /\ pc'[t] = "l_lock") =>
                /\ mu[HandleOf(t)] = t
                /\ mu'[HandleOf(t)] = Free
                /\ depth'[t] = depth[t] + 1]_vars
    /\ [](\A t \in Threads :
            (pc[t] = "l_lock" /\ depth[t] > 1) => mu[HandleOf(t)] # t)

\* C13 witness: between a Load's reacquisition and its retried transaction
\* another call on the same handle has taken the guard and is at its own
\* transaction.
C13_Witness ==
    \E t1, t2 \in Threads :
        /\ t1 # t2 /\ HandleOf(t1) = HandleOf(t2)
        /\ pc[t1] = "l_lock" /\ depth[t1] > 1
        /\ mu[HandleOf(t1)] = t2 /\ pc[t2] \in {"s_txn", "l_txn"}

\* C14: reacquisition never reuses the old session. A transaction whose
\* condition is false sends the call to open a session; the session it opens
\* is brand new, bound to this handle and its lock path, and its mutex is
\* installed as e.lock in place of the old one; e.lock only ever moves to a
\* session newer than every earlier one, so an old mutex is never installed
\* again, and two handles never share a mutex.
C14_FreshSession ==
    /\ [][\A t \in Threads :
            /\ ( /\ pc[t] \in {"s_txn", "l_txn"} /\ pc'[t] # pc[t]
                 /\ ~IsOwner(lock[HandleOf(t)]) /\ ~err'[t] )
                   => pc'[t] \in {"s_newsess", "l_newsess"}
            /\ ( pc[t] \in {"s_newsess", "l_newsess"}
                 /\ pc'[t] \in {"s_lockreq", "l_lockreq"} )
                   => /\ Len(sessions') = Len(sessions) + 1
                      /\ lock'[HandleOf(t)] = Len(sessions')
                      /\ lock'[HandleOf(t)] # lock[HandleOf(t)]
                      /\ lock'[HandleOf(t)] \in live'
                      /\ lock'[HandleOf(t)] \notin live
                      /\ sessions'[lock'[HandleOf(t)]].h = HandleOf(t)
                      /\ sessions'[lock'[HandleOf(t)]].path = lockPath[HandleOf(t)]]_vars
    /\ [][\A h \in Handles :
            (ctor[h] = "done" /\ lock'[h] # lock[h]) =>
                /\ lock'[h] > lock[h]
                /\ lock'[h] > Len(sessions)]_vars
    /\ [](\A t \in Threads :
            pc[t] \in {"s_lockreq", "l_lockreq"} =>
                /\ sessions[lock[HandleOf(t)]].by = lastOp[t]
                /\ sessions[lock[HandleOf(t)]].h = HandleOf(t))
    /\ [](\A h1, h2 \in Handles :
            (h1 # h2 /\ ctor[h1] = "done" /\ ctor[h2] = "done") => lock[h1] # lock[h2])

\* C14 witness: a call has reacquired the lock on a new session after the
\* session of the constructor was lost.
C14_Witness ==
    \E t \in Threads :
        /\ pc[t] \in {"s_recurse", "l_unlock"} /\ ~err[t]
        /\ lock[HandleOf(t)] # ctorLock[HandleOf(t)]
        /\ ctorLock[HandleOf(t)] \notin live
        /\ IsOwner(lock[HandleOf(t)])

\* C15: atomicity under contested ownership. Every change of the state record
\* is one step of a Save at its transaction, after which the record is
\* exactly that Save's payload (and otherwise the record is the prior value,
\* whole); the record is always Absent or the payload of some Save; a Save
\* that returned success committed exactly one put of its payload, and a
\* Save whose transaction failed its condition, or that returned an error,
\* committed none.
C15_Atomicity ==
    /\ [][stateRec' # stateRec =>
            \E t \in Threads :
                /\ pc[t] = "s_txn" /\ pc'[t] = "s_ret"
                /\ stateRec'.present /\ stateRec'.value = arg[t].bytes
                /\ wrote'[t] = wrote[t] + 1]_vars
    /\ [][\A t \in Threads :
            (pc[t] = "s_txn" /\ pc'[t] # pc[t]) =>
                \/ stateRec' = stateRec
                \/ stateRec'.present /\ stateRec'.value = arg[t].bytes]_vars
    /\ [](\/ stateRec = Absent
          \/ /\ stateRec.present
             /\ lastPut.payload \in Payloads
             /\ lastPut.h \in Handles
             /\ stateRec.value = lastPut.payload.bytes)
    /\ [](\A t \in Threads :
            /\ (Returned(t, "Save") /\ ~err[t]) => wrote[t] = 1
            /\ (Returned(t, "Save") /\ err[t]) => wrote[t] = 0
            /\ (lastOp[t] = "Save" /\ pc[t] \in {"s_newsess", "s_lockreq", "s_recurse"})
                   => wrote[t] = 0
            /\ wrote[t] <= 1)

\* C15 witness: one Save lost ownership and committed nothing while the
\* record holds the whole payload of another Save that returned success.
C15_Witness ==
    \E t1, t2 \in Threads :
        /\ t1 # t2
        /\ Returned(t1, "Save") /\ ~err[t1] /\ wrote[t1] = 1
        /\ lastPut.h = HandleOf(t1) /\ Len(lastPut.payload.bytes) > 0
        /\ stateRec = Stored(lastPut.payload.bytes)
        /\ pc[t2] \in {"s_newsess", "s_lockreq", "s_recurse"} /\ wrote[t2] = 0
        /\ arg[t2].bytes # stateRec.value

\* C16: Load returns only what a transaction with a true ownership condition
\* read. The get commits only when the handle's current lock owns the mutex,
\* and what it reads is the record as it is at that commit; the value (or
\* nil for Absent) that Load returns is what that transaction read; and every
\* return of Load without an error comes from such a transaction of the call.
C16_LoadFromVerifiedRead ==
    /\ [][\A t \in Threads :
            (pc[t] = "l_txn" /\ pc'[t] = "l_result") =>
                /\ IsOwner(lock[HandleOf(t)])
                /\ mu[HandleOf(t)] = t
                /\ stateRec' = stateRec
                /\ stateRec.present =>
                       /\ Len(resp'[t]) = 1
                       /\ resp'[t][1].bytes = stateRec.value
                /\ ~stateRec.present => resp'[t] = << >>]_vars
    /\ [][\A t \in Threads :
            (pc[t] = "l_result" /\ pc'[t] # pc[t]) =>
                /\ pc'[t] = "idle" /\ ~err'[t]
                /\ Len(resp[t]) = 0 => val'[t] = Nil
                /\ Len(resp[t]) > 0 => val'[t] = resp[t][1]]_vars
    /\ [][\A t \in Threads :
            (lastOp[t] = "Load" /\ pc[t] # "idle" /\ pc'[t] = "idle" /\ ~err'[t])
                => pc[t] = "l_result"]_vars
    /\ [][\A t \in Threads :
            (pc[t] = "l_result" /\ pc'[t] = "l_result") => resp'[t] = resp[t]]_vars

\* C16 witness: a Load that lost ownership, reacquired and retried has
\* returned the value the state key holds.
C16_Witness ==
    \E t \in Threads :
        /\ Returned(t, "Load") /\ ~err[t]
        /\ sessions[lock[HandleOf(t)]].by = "Load"
        /\ stateRec.present /\ Len(stateRec.value) > 0
        /\ val[t] = Slice(stateRec.value)

\* C17: retry on ownership loss has no budget: a call that has reacquired the
\* lock after a failed condition always goes on to its retried transaction,
\* one frame deeper, however many times it has retried before.
C17_RetryUnbounded ==
    \A t \in Threads :
        (pc[t] = "s_recurse" \/ (pc[t] = "l_unlock" /\ ~err[t]))
            ~> (pc[t] \in {"s_txn", "l_txn"} /\ depth[t] > 1)

\* C18: the guard is free whenever no Save or Load is in progress on the
\* handle: every return of Save and Load has released it.
C18_GuardFreeWhenIdle ==
    \A h \in Handles :
        (\A t \in Threads : HandleOf(t) = h => pc[t] = "idle") => mu[h] = Free

\* C19: outside a reacquisition in progress (the guard is free) the handle's
\* lock reference denotes a mutex whose lock request was granted at some
\* earlier time: its session holds the lock now, or held it and has expired
\* since (only the holder's session expires). A mutex whose lock request
\* failed is never left installed.
C19_LockRefGranted ==
    \A h \in Handles :
        (ctor[h] = "done" /\ mu[h] = Free) =>
            /\ lock[h] # NoLock
            /\ lock[h] \in holder \/ lock[h] \notin live

\* C20: frame conditions. No step of a Load changes the state record, on any
\* path; a Save or Load whose first transaction succeeds opens no session and
\* leaves e.lock unchanged, in that step and up to its return, because a
\* session is opened and e.lock replaced only by a call whose transaction
\* just failed its condition; and no step of a Save or Load changes the
\* handle's lockPath, statePath, ttlSec or client.
C20_Frame ==
    /\ [][\A t \in Threads :
            (lastOp[t] = "Load" /\ pc[t] # "idle" /\ pc'[t] # pc[t])
                => stateRec' = stateRec]_vars
    /\ [][\A t \in Threads :
            /\ ( /\ pc[t] \in {"s_txn", "l_txn"} /\ depth[t] = 1
                 /\ pc'[t] \in {"s_ret", "l_result"} /\ ~err'[t] )
                   => /\ IsOwner(lock[HandleOf(t)])
                      /\ UNCHANGED <<sessions, live, lock>>
            /\ (pc[t] \in {"s_ret", "l_result"} /\ pc'[t] # pc[t])
                   => UNCHANGED <<sessions, live, lock>>
            /\ (pc'[t] \in {"s_newsess", "l_newsess"} /\ pc[t] # pc'[t])
                   => /\ pc[t] \in {"s_txn", "l_txn"}
                      /\ ~IsOwner(lock[HandleOf(t)])]_vars
    /\ [][(sessions' # sessions \/ \E h \in Handles : ctor[h] = "done" /\ lock'[h] # lock[h])
            => \/ \E h \in Handles : ctor[h] = "start" /\ ctor'[h] # ctor[h]
               \/ \E t \in Threads : pc[t] \in {"s_newsess", "l_newsess"} /\ pc'[t] # pc[t]]_vars
    /\ [][\A h \in Handles :
            ctor[h] = "done" =>
                /\ ttlSec'[h] = ttlSec[h]
                /\ lockPath'[h] = lockPath[h]
                /\ statePath'[h] = statePath[h]
                /\ client'[h] = client[h]
                /\ ctor'[h] = "done"]_vars

\* C20 witness: a Load whose first transaction succeeded has returned the
\* stored value; no session was opened since the constructor, e.lock is the
\* constructor's mutex, and the record and the configuration are as before.
C20_Witness ==
    \E t \in Threads :
        /\ Returned(t, "Load") /\ ~err[t]
        /\ Len(sessions) = 1
        /\ lock[HandleOf(t)] = ctorLock[HandleOf(t)]
        /\ stateRec.present /\ val[t].bytes = stateRec.value
        /\ ttlSec[HandleOf(t)] \in TTLChoices
        /\ lockPath[HandleOf(t)] = DefaultLockPath
        /\ statePath[HandleOf(t)] = DefaultStatePath
        /\ client[HandleOf(t)] = NewClient(HandleOf(t))

=============================================================================
